---- MODULE Spec2Model ----
(***************************************************************************)
(* rsc/tiddly: the revisioned Tiddler store (tiddly.go: putTiddler,        *)
(* deleteTiddler, getTiddler, tiddlerList over Cloud Datastore) and the    *)
(* git mirror (gitbackup/gitbackup.go: index, GitDir.Commit).              *)
(*                                                                         *)
(* A datastore call is one atomic step on one entity; a handler is a       *)
(* sequence of such steps, and net/http runs handlers concurrently.        *)
(* Every datastore and git call may fail: the handlers branch on err.      *)
(***************************************************************************)
EXTENDS Integers, Sequences, FiniteSets, TLC

(* ---------------------------------------------------------------- bounds *)

\* Handler invocations started in one behaviour.
MaxCalls == 3

(* ------------------------------------------------------------ JSON values *)

\* 2^26 and 2^27: an integer literal n is held as <<hi, lo>>, n = hi*2^27 + lo,
\* so that the 53-bit significand of a float64 (2^53 = 2^26 * 2^27) fits TLC's
\* integers.
Two26 == 67108864
Two27 == 134217728

Str(s) == [t |-> "string", s |-> s]
Num(hi, lo) == [t |-> "number", hi |-> hi, lo |-> lo]
List(l) == [t |-> "array", l |-> l]

\* json.Unmarshal into interface{} stores a JSON number as a float64.
\* For 0 <= n < 2^53 the conversion is exact; for 2^53 <= n < 2^54 the
\* float64 grid has step 2 and an odd n rounds to the neighbour whose
\* significand is even.
Float64(hi, lo) ==
  IF hi < Two26 \/ lo % 2 = 0 THEN Num(hi, lo)
  ELSE IF ((lo - 1) \div 2) % 2 = 0 THEN Num(hi, lo - 1)
  ELSE IF lo + 1 = Two27 THEN Num(hi + 1, 0)
  ELSE Num(hi, lo + 1)

\* The Go value json.Unmarshal builds for one JSON value.
Decode(v) == IF v.t = "number" THEN Float64(v.hi, v.lo) ELSE v

\* Field names in ascending byte order (json.Marshal of a map, sort.Strings).
FieldOrder == <<"a", "bag", "revision", "tags", "text", "title">>

SortedKeys(S) == SelectSeq(FieldOrder, LAMBDA k : k \in S)

\* One field of a JSON object text: <<name, value>>.
RECURSIVE UnmarshalFrom(_, _)
UnmarshalFrom(js, pairs) ==
  IF pairs = <<>> THEN js
  ELSE LET k == Head(pairs)[1]
           v == Decode(Head(pairs)[2])
           rest == [x \in DOMAIN js \ {k} |-> js[x]]
       IN UnmarshalFrom([x \in DOMAIN js \cup {k} |->
                           IF x = k THEN v ELSE rest[x]], Tail(pairs))

\* json.Unmarshal of an object text into map[string]interface{}: fields are
\* set in text order, a repeated name keeps its last value.
Unmarshal(pairs) == UnmarshalFrom(<<>>, pairs)

\* json.Marshal of a map: its fields in ascending name order.
Marshal(js) ==
  LET ks == SortedKeys(DOMAIN js)
  IN [i \in 1..Len(ks) |-> <<ks[i], js[ks[i]]>>]

\* A JSON text that json.Unmarshal rejects; the stored Meta "" of a tombstone
\* is the empty sequence and is rejected too ("unexpected end of JSON input").
BadJSON == <<<<"{">>>>

\* An object text cut off after its fields: rejected too.
Truncated(pairs) == pairs \o BadJSON

\* json.Unmarshal succeeds: the text is not empty and every part of it is a
\* field.
Parses(text) == text # <<>> /\ \A i \in 1..Len(text) : Len(text[i]) = 2

(* ------------------------------------------------------------------ store *)

\* Datastore keys of kind Tiddler (the title after the URL prefix).
Titles == {"A", "B"}

\* Concurrent request handlers of the tiddly service.
Procs == {"w1", "w2"}

\* The macro tag tiddlerList looks for, quotes included, in the Meta text.
MacroTag == "$:/tags/Macro"

VARIABLES
  cur,       \* kind Tiddler: title -> Tiddler, defined on the stored keys
  hist,      \* kind TiddlerHistory: <<title, rev>> -> Tiddler
  pc,        \* handler -> its position
  req,       \* handler -> the request it serves
  loc,       \* handler -> its local Tiddler t
  res,       \* handler -> the response it wrote
  calls,     \* handler invocations started so far
  log,       \* history variable: title -> the Rev of each write of cur[title]
  okLog,     \* history variable: title -> <<method, rev>> of each 2xx write
  lastHist   \* history variable: title -> Rev of the last history write

storeVars == <<cur, hist, pc, req, loc, res, calls, log, okLog, lastHist>>

VARIABLES
  wt,        \* files of /tmp/gitbackup/tiddlers: name -> bytes
  idx,       \* index entries under tiddlers/: name -> bytes
  head,      \* tiddlers/ tree of the HEAD commit: name -> bytes
  outside,   \* names of the files written outside tiddlers/ (never staged)
  ahead,     \* local commits the remote does not have
  mpc,       \* mirror handler -> its position
  mscan,     \* mirror handler -> entities its query iterator still holds
  mres,      \* mirror handler -> status code of its response
  mrun,      \* history variable: mirror handler -> record of its run
  lastRun,   \* history variable: record of the run that ended last
  runs,      \* mirror runs started so far
  prepared   \* calls of NewGitDir (clone, or open and pull) so far

gitVars ==
  <<wt, idx, head, outside, ahead, mpc, mscan, mres, mrun, lastRun, runs, prepared>>

\* The zero Tiddler (var t Tiddler).
ZeroTiddler == [Rev |-> 0, Meta |-> <<>>, Text |-> ""]

NoReq == [op |-> "", title |-> "", data |-> <<>>]
NoRes == [code |-> 0, rev |-> 0, msg |-> "", body |-> <<>>]

\* http.Error(w, msg, code): the handler returns after it.
HttpError(code, msg) == [code |-> code, rev |-> 0, msg |-> msg, body |-> <<>>]

\* A response with the default status 200.
HttpOK(rev, body) == [code |-> 200, rev |-> rev, msg |-> "", body |-> body]

Put1(f, k, v) == [x \in DOMAIN f \cup {k} |-> IF x = k THEN v ELSE f[x]]
Drop(f, k) == [x \in DOMAIN f \ {k} |-> f[x]]

\* rev := 1; if datastore.Get(...) == nil { rev = old.Rev + 1 }
NextRev(found, old) == IF found THEN old.Rev + 1 ELSE 1

\* A Tiddler whose metadata carries the revision before its own.
PutTiddlerLag(js0, rev) ==
  LET js1 == Put1(js0, "bag", Str("bag"))
      js2 == Put1(js1, "revision", Num(0, rev - 1))
      text == IF "text" \in DOMAIN js2 /\ js2["text"].t = "string"
              THEN js2["text"].s ELSE ""
      js3 == Drop(js2, "text")
  IN [Rev |-> rev, Meta |-> Marshal(js3), Text |-> text]

\* A Tiddler built with the caller's bag and revision kept where supplied.
PutTiddlerKeep(js0, rev) ==
  LET js1 == IF "bag" \in DOMAIN js0 THEN js0 ELSE Put1(js0, "bag", Str("bag"))
      js2 == IF "revision" \in DOMAIN js1 THEN js1
             ELSE Put1(js1, "revision", Num(0, rev))
      text == IF "text" \in DOMAIN js2 /\ js2["text"].t = "string"
              THEN js2["text"].s ELSE ""
      js3 == Drop(js2, "text")
  IN [Rev |-> rev, Meta |-> Marshal(js3), Text |-> text]

\* The Tiddler putTiddler builds from the decoded payload and rev.
PutTiddler(js0, rev) ==
  LET js1 == Put1(js0, "bag", Str("bag"))
      js2 == Put1(js1, "revision", Num(0, rev))
      text == IF "text" \in DOMAIN js2 /\ js2["text"].t = "string"
              THEN js2["text"].s ELSE ""
      js3 == Drop(js2, "text")
  IN [Rev |-> rev, Meta |-> Marshal(js3), Text |-> text]

\* The Tiddler deleteTiddler writes: t.Rev++, Meta and Text cleared.
Tombstone(t) == [Rev |-> t.Rev + 1, Meta |-> <<>>, Text |-> ""]

\* A history key whose revision lags the Tiddler's by one.
HistKeyStale(title, rev) == <<title, rev - 1>>

\* datastore.NewKey(ctx, "TiddlerHistory", title+"#"+fmt.Sprint(t.Rev), 0, nil)
HistKey(title, rev) == <<title, rev>>

\* A conditional write: the entity is kept when it holds this revision or a
\* later one.
StorePutIfNewer(c, key, t) ==
  IF key \in DOMAIN c /\ c[key].Rev >= t.Rev THEN c ELSE Put1(c, key, t)

\* A write that replaces every entity of the kind.
StorePutAll(c, key, t) == [x \in DOMAIN c \cup {key} |-> t]

\* datastore.Put(ctx, key, &t): the entity at key is replaced, unconditionally.
StorePut(c, key, t) == Put1(c, key, t)

Done(p, r) ==
  /\ pc' = [pc EXCEPT ![p] = "done"]
  /\ res' = [res EXCEPT ![p] = r]

Start(p, op, title, data) ==
  /\ pc[p] \in {"idle", "done"}
  /\ calls < MaxCalls
  /\ calls' = calls + 1
  /\ req' = [req EXCEPT ![p] = [op |-> op, title |-> title, data |-> data]]

\* putTiddler up to the build of t: decode the body, read the current entity.
PutRead(p, Payloads) ==
  \E title \in Titles, data \in Payloads, getErr \in BOOLEAN :
    /\ Start(p, "PUT", title, data)
    /\ IF ~Parses(data)
       THEN /\ Done(p, HttpError(500, "json"))
            /\ loc' = [loc EXCEPT ![p] = ZeroTiddler]
       ELSE LET found == ~getErr /\ title \in DOMAIN cur
                old == IF found THEN cur[title] ELSE ZeroTiddler
                rev == NextRev(found, old)
            IN /\ loc' = [loc EXCEPT ![p] = PutTiddler(Unmarshal(data), rev)]
               /\ pc' = [pc EXCEPT ![p] = "put_cur"]
               /\ res' = [res EXCEPT ![p] = NoRes]
    /\ UNCHANGED <<cur, hist, log, okLog, lastHist>>
  /\ UNCHANGED gitVars

\* datastore.Put(ctx, key, &t)
PutCurrent(p) ==
  /\ pc[p] = "put_cur"
  /\ \/ /\ cur' = StorePut(cur, req[p].title, loc[p])
        /\ log' = [log EXCEPT ![req[p].title] = Append(@, loc[p].Rev)]
        /\ pc' = [pc EXCEPT ![p] = "put_hist"]
        /\ UNCHANGED res
     \/ /\ Done(p, HttpError(500, "datastore"))
        /\ UNCHANGED <<cur, log>>
  /\ UNCHANGED <<hist, req, loc, calls, okLog, lastHist>>
  /\ UNCHANGED gitVars

\* datastore.Put(ctx, key2, &t), then the Etag header.
PutHistory(p) ==
  /\ pc[p] = "put_hist"
  /\ \/ /\ hist' = StorePut(hist, HistKey(req[p].title, loc[p].Rev), loc[p])
        /\ lastHist' = [lastHist EXCEPT ![req[p].title] = loc[p].Rev]
        /\ okLog' = [okLog EXCEPT ![req[p].title] = Append(@, <<"PUT", loc[p].Rev>>)]
        /\ Done(p, HttpOK(loc[p].Rev, <<>>))
     \/ /\ Done(p, HttpError(500, "datastore"))
        /\ UNCHANGED <<hist, lastHist, okLog>>
  /\ UNCHANGED <<cur, req, loc, calls, log>>
  /\ UNCHANGED gitVars

\* http.Error(w, err.Error(), 500) after a failed datastore.Get: the status
\* is 500 whatever the error, the text is that of ErrNoSuchEntity when the
\* call itself succeeded and found no entity.
GetError(getErr) ==
  HttpError(500, IF getErr THEN "datastore" ELSE "no such entity")

\* deleteTiddler up to the clearing of t.
DelRead(p) ==
  \E title \in Titles, getErr \in BOOLEAN :
    /\ Start(p, "DELETE", title, <<>>)
    /\ IF getErr \/ title \notin DOMAIN cur
       THEN /\ Done(p, GetError(getErr))
            /\ loc' = [loc EXCEPT ![p] = ZeroTiddler]
       ELSE /\ loc' = [loc EXCEPT ![p] = Tombstone(cur[title])]
            /\ pc' = [pc EXCEPT ![p] = "del_cur"]
            /\ res' = [res EXCEPT ![p] = NoRes]
    /\ UNCHANGED <<cur, hist, log, okLog, lastHist>>
  /\ UNCHANGED gitVars

DelCurrent(p) ==
  /\ pc[p] = "del_cur"
  /\ \/ /\ cur' = StorePut(cur, req[p].title, loc[p])
        /\ log' = [log EXCEPT ![req[p].title] = Append(@, loc[p].Rev)]
        /\ pc' = [pc EXCEPT ![p] = "del_hist"]
        /\ UNCHANGED res
     \/ /\ Done(p, HttpError(500, "datastore"))
        /\ UNCHANGED <<cur, log>>
  /\ UNCHANGED <<hist, req, loc, calls, okLog, lastHist>>
  /\ UNCHANGED gitVars

DelHistory(p) ==
  /\ pc[p] = "del_hist"
  /\ \/ /\ hist' = StorePut(hist, HistKey(req[p].title, loc[p].Rev), loc[p])
        /\ lastHist' = [lastHist EXCEPT ![req[p].title] = loc[p].Rev]
        /\ okLog' = [okLog EXCEPT ![req[p].title] = Append(@, <<"DELETE", loc[p].Rev>>)]
        /\ Done(p, HttpOK(loc[p].Rev, <<>>))
     \/ /\ Done(p, HttpError(500, "datastore"))
        /\ UNCHANGED <<hist, lastHist, okLog>>
  /\ UNCHANGED <<cur, req, loc, calls, log>>
  /\ UNCHANGED gitVars

\* The response getTiddler builds from the entity it read.
GetResponse(t) ==
  IF ~Parses(t.Meta) THEN HttpError(500, "json")
  ELSE HttpOK(0, Marshal(Put1(Unmarshal(t.Meta), "text", Str(t.Text))))

GetTiddler(p) ==
  \E title \in Titles, getErr \in BOOLEAN :
    /\ Start(p, "GET", title, <<>>)
    /\ IF getErr \/ title \notin DOMAIN cur
       THEN /\ Done(p, GetError(getErr))
            /\ loc' = [loc EXCEPT ![p] = ZeroTiddler]
       ELSE /\ Done(p, GetResponse(cur[title]))
            /\ loc' = [loc EXCEPT ![p] = cur[title]]
    /\ UNCHANGED <<cur, hist, log, okLog, lastHist>>
  /\ UNCHANGED gitVars

\* strings.Contains(meta, `"$:/tags/Macro"`): the quoted tag anywhere in the
\* Meta text, as a field name, a string value or an array element.
ContainsMacro(meta) ==
  \E i \in 1..Len(meta) :
    /\ Len(meta[i]) = 2
    /\ \/ meta[i][1] = MacroTag
       \/ meta[i][2].t = "string" /\ meta[i][2].s = MacroTag
       \/ meta[i][2].t = "array" /\ \E j \in 1..Len(meta[i][2].l) : meta[i][2].l[j] = MacroTag

\* What tiddlerList appends to the array for one entity (<<>>: nothing).
ListEntry(t) ==
  IF Len(t.Meta) = 0 THEN <<>>
  ELSE IF ContainsMacro(t.Meta)
       THEN IF ~Parses(t.Meta) THEN <<>>
            ELSE <<Marshal(Put1(Unmarshal(t.Meta), "text", Str(t.Text)))>>
       ELSE <<t.Meta>>

\* Stored keys in the order the query returns them.
TitleOrder == <<"A", "B">>

StoredTitles(c) == SelectSeq(TitleOrder, LAMBDA k : k \in DOMAIN c)

RECURSIVE ListOf(_, _)
ListOf(c, ks) ==
  IF ks = <<>> THEN <<>> ELSE ListEntry(c[Head(ks)]) \o ListOf(c, Tail(ks))

TiddlerList(p) ==
  \E qErr \in BOOLEAN :
    /\ Start(p, "LIST", "", <<>>)
    /\ IF qErr THEN Done(p, HttpError(500, "datastore"))
       ELSE Done(p, HttpOK(0, ListOf(cur, StoredTitles(cur))))
    /\ loc' = [loc EXCEPT ![p] = ZeroTiddler]
    /\ UNCHANGED <<cur, hist, log, okLog, lastHist>>
  /\ UNCHANGED gitVars

PayX == <<<<"title", Str("A")>>, <<"text", Str("x")>>, <<"a", Num(0, 1)>>>>
PayY == <<<<"text", Str("y")>>, <<"tags", List(<<MacroTag>>)>>>>

StorePayloads == {PayX, PayY, BadJSON}

StoreInit ==
  /\ cur = <<>>
  /\ hist = <<>>
  /\ pc = [p \in Procs |-> "idle"]
  /\ req = [p \in Procs |-> NoReq]
  /\ loc = [p \in Procs |-> ZeroTiddler]
  /\ res = [p \in Procs |-> NoRes]
  /\ calls = 0
  /\ log = [t \in Titles |-> <<>>]
  /\ okLog = [t \in Titles |-> <<>>]
  /\ lastHist = [t \in Titles |-> 0]


(* ----------------------------------------------------------------- mirror *)

\* Mirror runs started in one behaviour.
MaxRuns == 2

\* Concurrent request handlers of the gitbackup service (func index).
Mirrors == {"m1", "m2"}

\* Title fields whose file name leaves tiddlers/ (filepath.Join cleans "..").
Escaping == {"../x"}
\* Title fields that name a file in a directory that does not exist.
Nested == {"$:/x"}

RECURSIVE JoinComma(_)
\* The elements joined by commas.
JoinComma(l) ==
  IF l = <<>> THEN ""
  ELSE IF Len(l) = 1 THEN l[1]
  ELSE l[1] \o "," \o JoinComma(Tail(l))

RECURSIVE Join(_)
\* The tags loop: elements joined by single spaces.
Join(l) ==
  IF l = <<>> THEN ""
  ELSE IF Len(l) = 1 THEN l[1]
  ELSE l[1] \o " " \o Join(Tail(l))

\* fmt's %v of a decoded JSON value (numbers: the integers below 10^6 that
\* the modelled payloads hold, which %v prints in plain digits).
FormatV(v) ==
  CASE v.t = "string" -> v.s
    [] v.t = "number" -> ToString(v.lo)
    [] v.t = "array" -> "[" \o Join(v.l) \o "]"

\* tags := js[k].([]interface{}) panics on any other type.
TagsPanic(js) == "tags" \in DOMAIN js /\ js["tags"].t # "array"

RECURSIVE RenderFields(_, _)
\* The loop over the sorted keys: one "k: v\n" line per field, the tags
\* joined, an empty tags list skipped.
RenderFields(js, ks) ==
  IF ks = <<>> THEN ""
  ELSE LET k == Head(ks)
           line == IF k = "tags"
                   THEN IF Len(js[k].l) = 0 THEN ""
                        ELSE k \o ": " \o Join(js[k].l) \o "\n"
                   ELSE k \o ": " \o FormatV(js[k]) \o "\n"
       IN line \o RenderFields(js, Tail(ks))

\* The bytes of one entity with the field lines in the order of the Meta text.
RenderUnsorted(t) ==
  LET js == Unmarshal(t.Meta)
  IN RenderFields(js, [i \in 1..Len(t.Meta) |-> t.Meta[i][1]]) \o "\n" \o t.Text

\* The bytes index writes for one entity.
Render(t) ==
  LET js == Unmarshal(t.Meta)
  IN RenderFields(js, SortedKeys(DOMAIN js)) \o "\n" \o t.Text

\* fmt.Sprintf("%v.tid", js["title"])
FileName(js) ==
  IF "title" \in DOMAIN js THEN FormatV(js["title"]) \o ".tid" ELSE "<nil>.tid"

\* Where ioutil.WriteFile(filepath.Join(dir, name), ...) lands: in tiddlers/,
\* outside it, or nowhere (the error is dropped).
FileTarget(js) ==
  IF "title" \in DOMAIN js /\ js["title"].t = "string" /\ js["title"].s \in Escaping
  THEN "outside"
  ELSE IF "title" \in DOMAIN js /\ js["title"].t = "string" /\ js["title"].s \in Nested
  THEN "none"
  ELSE "inside"

\* Writes of the current records so far (the store's generation).
RECURSIVE SumLen(_, _)
SumLen(f, ks) == IF ks = <<>> THEN 0 ELSE Len(f[Head(ks)]) + SumLen(f, Tail(ks))
Gen == SumLen(log, TitleOrder)

NoRun == [n |-> 0, gen |-> 0, commit |-> FALSE, push |-> FALSE, end |-> ""]

Running(m) == mpc[m] \notin {"idle", "done"}

\* The handler returns: its response code, and how its run ended.
MirrorDone(m, code, end) ==
  /\ mpc' = [mpc EXCEPT ![m] = "done"]
  /\ mres' = [mres EXCEPT ![m] = code]
  /\ mscan' = [mscan EXCEPT ![m] = <<>>]
  /\ mrun' = [mrun EXCEPT ![m].end = end]
  /\ lastRun' = [mrun[m] EXCEPT !.end = end]

RECURSIVE Snapshot(_, _)
Snapshot(c, ks) == IF ks = <<>> THEN <<>> ELSE <<c[Head(ks)]>> \o Snapshot(c, Tail(ks))

\* index up to the loop: run the query, RemoveGlob, RemoveAll, MkdirAll.
MirrorStart(m) ==
  /\ mpc[m] \in {"idle", "done"}
  /\ runs < MaxRuns
  /\ runs' = runs + 1
  /\ LET rec == [n |-> runs + 1, gen |-> Gen, commit |-> FALSE, push |-> FALSE,
                 end |-> ""]
         mark == [mrun EXCEPT ![m] = rec]
     IN \/ \* gd.wt.RemoveGlob fails
           /\ mpc' = [mpc EXCEPT ![m] = "done"]
           /\ mres' = [mres EXCEPT ![m] = 500]
           /\ mscan' = [mscan EXCEPT ![m] = <<>>]
           /\ mrun' = [mark EXCEPT ![m].end = "rebuild_error"]
           /\ lastRun' = [rec EXCEPT !.end = "rebuild_error"]
           /\ UNCHANGED <<wt, idx>>
        \/ \* the subtree is cleared, os.MkdirAll fails
           /\ mpc' = [mpc EXCEPT ![m] = "done"]
           /\ mres' = [mres EXCEPT ![m] = 500]
           /\ mscan' = [mscan EXCEPT ![m] = <<>>]
           /\ mrun' = [mark EXCEPT ![m].end = "rebuild_error"]
           /\ lastRun' = [rec EXCEPT !.end = "rebuild_error"]
           /\ wt' = <<>> /\ idx' = <<>>
        \/ /\ mpc' = [mpc EXCEPT ![m] = "scan"]
           /\ mres' = [mres EXCEPT ![m] = 0]
           /\ mscan' = [mscan EXCEPT ![m] = Snapshot(cur, StoredTitles(cur))]
           /\ mrun' = mark
           /\ wt' = <<>> /\ idx' = <<>>
           /\ UNCHANGED lastRun
  /\ UNCHANGED <<head, outside, ahead>>
  /\ UNCHANGED <<storeVars, prepared>>

\* One turn of the loop: it.Next, then the file of the entity.
MirrorScan(m) ==
  /\ mpc[m] = "scan"
  /\ \/ \* it.Next fails
        /\ MirrorDone(m, 500, "scan_error")
        /\ UNCHANGED <<wt, outside>>
     \/ \* datastore.Done
        /\ mscan[m] = <<>>
        /\ mpc' = [mpc EXCEPT ![m] = "add"]
        /\ UNCHANGED <<wt, outside, mscan, mres, mrun, lastRun>>
     \/ /\ mscan[m] # <<>>
        /\ LET t == Head(mscan[m])
               js == Unmarshal(t.Meta)
           IN IF Len(t.Meta) = 0 \/ ~Parses(t.Meta)
              THEN /\ mscan' = [mscan EXCEPT ![m] = Tail(@)]
                   /\ UNCHANGED <<wt, outside, mpc, mres, mrun, lastRun>>
              ELSE IF TagsPanic(js)
              THEN /\ MirrorDone(m, 0, "panic")
                   /\ UNCHANGED <<wt, outside>>
              ELSE /\ mscan' = [mscan EXCEPT ![m] = Tail(@)]
                   /\ wt' = IF FileTarget(js) = "inside"
                            THEN Put1(wt, FileName(js), Render(t)) ELSE wt
                   /\ outside' = IF FileTarget(js) = "outside"
                                 THEN outside \cup {FileName(js)} ELSE outside
                   /\ UNCHANGED <<mpc, mres, mrun, lastRun>>
  /\ UNCHANGED <<idx, head, ahead, runs>>
  /\ UNCHANGED <<storeVars, prepared>>

\* g.wt.AddGlob("tiddlers/*"): every file of tiddlers/ is staged; no file
\* there is an error (ErrGlobNoMatches).
CommitAdd(m) ==
  /\ mpc[m] = "add"
  /\ \/ \* ErrGlobNoMatches
        /\ DOMAIN wt = {}
        /\ MirrorDone(m, 200, "no_match")
        /\ UNCHANGED idx
     \/ /\ DOMAIN wt # {}
        /\ MirrorDone(m, 200, "add_error")
        /\ UNCHANGED idx
     \/ /\ DOMAIN wt # {}
        /\ idx' = [f \in DOMAIN idx \cup DOMAIN wt |->
                     IF f \in DOMAIN wt THEN wt[f] ELSE idx[f]]
        /\ mpc' = [mpc EXCEPT ![m] = "status"]
        /\ UNCHANGED <<mscan, mres, mrun, lastRun>>
  /\ UNCHANGED <<wt, head, outside, ahead, runs>>
  /\ UNCHANGED <<storeVars, prepared>>

\* status.IsClean(): no file differs between HEAD, the index and the
\* working tree, and no file is untracked.
IsClean == head = idx /\ idx = wt /\ outside = {}

\* g.wt.Status() and the IsClean test.
CommitStatus(m) ==
  /\ mpc[m] = "status"
  /\ \/ MirrorDone(m, 200, "status_error")
     \/ /\ IsClean
        /\ MirrorDone(m, 200, "clean")
     \/ /\ ~IsClean
        /\ mpc' = [mpc EXCEPT ![m] = "commit"]
        /\ UNCHANGED <<mscan, mres, mrun, lastRun>>
  /\ UNCHANGED <<wt, idx, head, outside, ahead, runs>>
  /\ UNCHANGED <<storeVars, prepared>>

\* g.wt.Commit("updates", ...) and g.repo.CommitObject(co).
CommitCreate(m) ==
  /\ mpc[m] = "commit"
  /\ \/ /\ MirrorDone(m, 200, "commit_error")
        /\ UNCHANGED <<head, ahead>>
     \/ /\ head' = idx
        /\ ahead' = ahead + 1
        /\ \/ /\ mpc' = [mpc EXCEPT ![m] = "push"]
              /\ mrun' = [mrun EXCEPT ![m].commit = TRUE]
              /\ UNCHANGED <<mscan, mres, lastRun>>
           \/ \* CommitObject fails
              /\ mpc' = [mpc EXCEPT ![m] = "done"]
              /\ mres' = [mres EXCEPT ![m] = 200]
              /\ mscan' = [mscan EXCEPT ![m] = <<>>]
              /\ mrun' = [mrun EXCEPT ![m].commit = TRUE, ![m].end = "commit_error"]
              /\ lastRun' = [mrun[m] EXCEPT !.commit = TRUE, !.end = "commit_error"]
  /\ UNCHANGED <<wt, idx, outside, runs>>
  /\ UNCHANGED <<storeVars, prepared>>

\* g.repo.Push(...), then index writes "OK".
CommitPush(m) ==
  /\ mpc[m] = "push"
  /\ mpc' = [mpc EXCEPT ![m] = "done"]
  /\ mres' = [mres EXCEPT ![m] = 200]
  /\ mscan' = [mscan EXCEPT ![m] = <<>>]
  /\ \/ /\ ahead' = 0
        /\ mrun' = [mrun EXCEPT ![m].push = TRUE, ![m].end = "pushed"]
        /\ lastRun' = [mrun[m] EXCEPT !.push = TRUE, !.end = "pushed"]
     \/ /\ UNCHANGED ahead
        /\ mrun' = [mrun EXCEPT ![m].push = TRUE, ![m].end = "push_error"]
        /\ lastRun' = [mrun[m] EXCEPT !.push = TRUE, !.end = "push_error"]
  /\ UNCHANGED <<wt, idx, head, outside, runs>>
  /\ UNCHANGED <<storeVars, prepared>>

\* main has called NewGitDir once, before http.HandleFunc.
GitInit ==
  /\ wt = <<>>
  /\ idx = <<>>
  /\ head = <<>>
  /\ outside = {}
  /\ ahead = 0
  /\ mpc = [m \in Mirrors |-> "idle"]
  /\ mscan = [m \in Mirrors |-> <<>>]
  /\ mres = [m \in Mirrors |-> 0]
  /\ mrun = [m \in Mirrors |-> NoRun]
  /\ lastRun = NoRun
  /\ runs = 0
  /\ prepared = 1

(* ------------------------------------------------ one client, no overlap *)

\* 2^53 + 1, the smallest positive integer a float64 cannot hold.
PayBig == <<<<"a", Num(Two26, 1)>>, <<"text", Str("x")>>>>
\* A payload that supplies its own bag and revision.
PayOwn == <<<<"text", Str("y")>>, <<"revision", Num(0, 7)>>, <<"bag", Str("mine")>>, <<"a", Str("v")>>>>
\* A payload whose text is not a string.
PayNum == <<<<"text", Num(0, 3)>>, <<"a", Str("v")>>>>

\* A payload that holds the macro marker as the value of another field.
PayQuote == <<<<"text", Str("q")>>, <<"a", Str(MacroTag)>>>>

SeqPayloads == {PayX, PayY, PayBig, PayOwn, PayNum, PayQuote, BadJSON}

(* --------------------------------------------------------- specifications *)

vars == <<storeVars, gitVars>>

Init == StoreInit /\ GitInit

\* The tiddly service under concurrent requests.
Next ==
  \E p \in Procs :
    \/ PutRead(p, StorePayloads)
    \/ PutCurrent(p)
    \/ PutHistory(p)
    \/ DelRead(p)
    \/ DelCurrent(p)
    \/ DelHistory(p)
    \/ GetTiddler(p)
    \/ TiddlerList(p)

Spec == Init /\ [][Next]_vars

\* The tiddly service with one client, each call after the last returned.
SeqNext ==
  \/ PutRead("w1", SeqPayloads)
  \/ PutCurrent("w1")
  \/ PutHistory("w1")
  \/ DelRead("w1")
  \/ DelCurrent("w1")
  \/ DelHistory("w1")
  \/ GetTiddler("w1")
  \/ TiddlerList("w1")

SpecSeq == Init /\ [][SeqNext]_vars

PayT == <<<<"title", Str("A")>>, <<"text", Str("x")>>, <<"tags", List(<<"x", "y">>)>>>>
PayEscape == <<<<"title", Str("../x")>>, <<"text", Str("y")>>>>
PayNested == <<<<"title", Str("$:/x")>>, <<"text", Str("z")>>>>

MirrorPayloads == {PayT, PayEscape, PayNested}

\* Calls of the tiddly client beside the mirror in one behaviour.
MaxWrites == 2

\* One tiddly client's writes.
Writes(Payloads) ==
  \/ calls < MaxWrites /\ PutRead("w1", Payloads)
  \/ PutCurrent("w1")
  \/ PutHistory("w1")
  \/ calls < MaxWrites /\ DelRead("w1")
  \/ DelCurrent("w1")
  \/ DelHistory("w1")

\* One handler of the gitbackup service.
Mirror(m) ==
  \/ MirrorStart(m)
  \/ MirrorScan(m)
  \/ CommitAdd(m)
  \/ CommitStatus(m)
  \/ CommitCreate(m)
  \/ CommitPush(m)

\* The gitbackup service triggered by one caller at a time (the cron job),
\* beside one tiddly client.
MirrorNext == Writes(MirrorPayloads) \/ Mirror("m1")

SpecMirror == Init /\ [][MirrorNext]_vars

\* The gitbackup service beside a client that puts one document over and
\* over.
RenderNext ==
  \/ calls < MaxWrites /\ PutRead("w1", {PayT})
  \/ PutCurrent("w1")
  \/ PutHistory("w1")
  \/ Mirror("m1")

SpecRender == Init /\ [][RenderNext]_vars

\* The gitbackup service under concurrent triggers.
RaceNext == Writes({PayT}) \/ \E m \in Mirrors : Mirror(m)

SpecRace == Init /\ [][RaceNext]_vars

\* A payload whose tags field is a string, not an array.
PayTagStr == <<<<"title", Str("B")>>, <<"text", Str("t")>>, <<"tags", Str("x y")>>>>

\* A payload whose tags field is the empty array.
PayNoTags == <<<<"title", Str("B")>>, <<"text", Str("e")>>, <<"tags", List(<<>>)>>>>

\* Entities a datastore may hold at start: written by putTiddler and
\* deleteTiddler, or put there by other means (an import, a damaged entity)
\* with a Meta that json.Unmarshal rejects, with and without the macro tag.
Blobs ==
  { PutTiddler(Unmarshal(PayX), 1),
    PutTiddler(Unmarshal(PayY), 1),
    PutTiddler(Unmarshal(PayTagStr), 1),
    PutTiddler(Unmarshal(PayT), 1),
    PutTiddler(Unmarshal(PayNoTags), 1),
    Tombstone(PutTiddler(Unmarshal(PayX), 1)),
    [Rev |-> 1, Meta |-> Truncated(<<<<"title", Str("A")>>>>), Text |-> "x"],
    [Rev |-> 1, Meta |-> Truncated(<<<<"tags", List(<<MacroTag>>)>>>>), Text |-> "y"] }

Stores == UNION {[S -> Blobs] : S \in SUBSET Titles}

ListInit ==
  /\ cur \in Stores
  /\ hist = <<>>
  /\ pc = [p \in Procs |-> "idle"]
  /\ req = [p \in Procs |-> NoReq]
  /\ loc = [p \in Procs |-> ZeroTiddler]
  /\ res = [p \in Procs |-> NoRes]
  /\ calls = 0
  /\ log = [t \in Titles |-> <<>>]
  /\ okLog = [t \in Titles |-> <<>>]
  /\ lastHist = [t \in Titles |-> 0]
  /\ GitInit

\* The readers of the tiddly service over a datastore it did not fill.
ListNext ==
  \E p \in Procs :
    \/ GetTiddler(p)
    \/ TiddlerList(p)

SpecList == ListInit /\ [][ListNext]_vars

\* The gitbackup service over a datastore it finds filled.
RebuildNext == Mirror("m1")

SpecRebuild == ListInit /\ [][RebuildNext]_vars

(* ----------------------------------------------------------------- claims *)

Last(s) == s[Len(s)]

\* The mapping a JSON object text denotes, numbers kept exact (what the
\* caller wrote, what the caller reads).
RECURSIVE ExactFrom(_, _)
ExactFrom(m, pairs) ==
  IF pairs = <<>> THEN m
  ELSE ExactFrom(Put1(m, Head(pairs)[1], Head(pairs)[2]), Tail(pairs))

Exact(pairs) == ExactFrom(<<>>, pairs)

\* Handler p returns from a write of title with 2xx in this step.
WriteReturns(p) ==
  /\ pc[p] \in {"put_hist", "del_hist"}
  /\ pc'[p] = "done"

\* C1: with calls applied one after another, the first write of a title has
\* revision 1 and every later write of it has the previous write's revision
\* plus 1.
C1_RevisionsStepByOne ==
  \A t \in Titles : \A i \in 1..Len(log[t]) :
    log[t][i] = IF i = 1 THEN 1 ELSE log[t][i - 1] + 1

InFlight(t) ==
  \E p \in Procs : pc[p] \notin {"idle", "done"} /\ req[p].title = t

\* C2: for every title with a current record, the current revision equals
\* the revision of the last history record written for the title and the
\* number of writes applied to the title. Stated for the states that favour
\* the claim most: no call on the title is under way, and every call that
\* wrote the title returned 2xx.
C2_RevisionMatchesHistoryAndCount ==
  \A t \in DOMAIN cur :
    (~InFlight(t) /\ Len(okLog[t]) = Len(log[t]))
      => /\ cur[t].Rev = lastHist[t]
         /\ cur[t].Rev = Len(log[t])

\* C3: the revisions written to a title's current record strictly increase:
\* the stored revision never decreases and no revision is given to two writes.
C3_RevisionsNeverReused ==
  \A t \in Titles : \A i, j \in 1..Len(log[t]) :
    i < j => log[t][i] < log[t][j]

\* C4: a history entry, once written, keeps its key and its content.
C4_HistoryImmutable ==
  [][\A k \in DOMAIN hist : k \in DOMAIN hist' /\ hist'[k] = hist[k]]_vars

\* C5: a Put's write of the current record is unconditional: it stores the
\* Tiddler built from the handler's earlier read, whatever revision the
\* current record holds by then and without touching the history.
C5_WriteIgnoresCurrent ==
  [][\A p \in Procs :
       (pc[p] = "put_cur" /\ pc'[p] = "put_hist")
         => /\ cur'[req[p].title] = loc[p]
            /\ \A t \in DOMAIN cur \ {req[p].title} : cur'[t] = cur[t]]_vars

\* C5 (witness): both handlers' Puts of one title returned 200 with the same
\* revision, and the current revision is below the number of 2xx writes.
C5_LostUpdate ==
  \E t \in DOMAIN cur :
    /\ \A p \in Procs : /\ pc[p] = "done" /\ req[p].op = "PUT" /\ req[p].title = t
                        /\ res[p].code = 200
    /\ res["w1"].rev = res["w2"].rev
    /\ req["w1"].data # req["w2"].data
    /\ cur[t].Rev < Len(okLog[t])

\* C6: a write that returns 2xx with revision r has just stored, at history
\* key (title, r), the Tiddler it wrote to the current record; a write whose
\* history Put fails returns 500 and stores no history entry.
C6_HistoryOnSuccess ==
  [][\A p \in Procs :
       /\ (pc[p] \in {"put_cur", "del_cur"} /\ pc'[p] \in {"put_hist", "del_hist"})
            => cur'[req[p].title] = loc[p] /\ loc'[p] = loc[p]
       /\ WriteReturns(p) =>
            IF res'[p].code = 200
            THEN /\ res'[p].rev = loc[p].Rev
                 /\ <<req[p].title, res'[p].rev>> \in DOMAIN hist'
                 /\ hist'[<<req[p].title, res'[p].rev>>] = loc[p]
            ELSE /\ res'[p].code = 500
                 /\ hist' = hist]_vars

\* C6 (witness): a write returned 500 after it stored the current record,
\* which has no history entry at its revision.
C6_CurrentWithoutHistory ==
  \E p \in Procs :
    /\ pc[p] = "done" /\ req[p].op \in {"PUT", "DELETE"} /\ res[p].code = 500
    /\ req[p].title \in DOMAIN cur
    /\ cur[req[p].title] = loc[p]
    /\ loc[p].Rev > 0
    /\ <<req[p].title, loc[p].Rev>> \notin DOMAIN hist

\* The client's previous call returned 2xx for method op, and this step is
\* its next call, of method op2 on the same title, answered in the same step.
Follows(p, op, op2) ==
  /\ pc[p] = "done" /\ req[p].op = op /\ res[p].code = 200
  /\ calls' = calls + 1
  /\ pc'[p] = "done" /\ req'[p].op = op2
  /\ op2 # "LIST" => req'[p].title = req[p].title
  /\ res'[p].msg # "datastore"

Live(c) == {t \in DOMAIN c : Len(c[t].Meta) # 0}

\* C7: after a Delete of a document at revision r returned 2xx, Get of the
\* title answers 2xx with empty metadata and text and revision r + 1, and
\* the listing has no entry for the title.
C7_GetAfterDelete ==
  [][/\ Follows("w1", "DELETE", "GET") =>
          /\ res'["w1"].code = 200
          /\ loc'["w1"] = [Rev |-> res["w1"].rev, Meta |-> <<>>, Text |-> ""]
     /\ Follows("w1", "DELETE", "LIST") =>
          /\ res'["w1"].code = 200
          /\ req["w1"].title \notin Live(cur)
          /\ Len(res'["w1"].body) = Cardinality(Live(cur))]_vars

HasStringText(f) == "text" \in DOMAIN f /\ f["text"].t = "string"

\* C8: Put(T, F) with a string text, then Get(T): the answer has every field
\* of F other than bag, revision and text with F's value, bag = "bag",
\* revision = the revision Put returned, text = F's text.
C8_RoundTrip ==
  [][(Follows("w1", "PUT", "GET") /\ HasStringText(Exact(req["w1"].data))) =>
       /\ res'["w1"].code = 200
       /\ LET f == Exact(req["w1"].data)
              g == Exact(res'["w1"].body)
          IN /\ \A k \in DOMAIN f \ {"bag", "revision", "text"} :
                   k \in DOMAIN g /\ g[k] = f[k]
             /\ "bag" \in DOMAIN g /\ g["bag"] = Str("bag")
             /\ "revision" \in DOMAIN g /\ g["revision"] = Num(0, res["w1"].rev)
             /\ "text" \in DOMAIN g /\ g["text"] = f["text"]]_vars

\* C9: at no time are two mirror handlers between the start of their rebuild
\* and the end of their commit/push.
C9_OneRunInFlight ==
  Cardinality({m \in Mirrors : Running(m)}) <= 1

\* The run of handler m follows, with no write of a current record between
\* the two queries, a run that ended with no failed step.
SecondRun(m) ==
  /\ lastRun.n > 0
  /\ mrun[m].n = lastRun.n + 1
  /\ mrun[m].gen = lastRun.gen
  /\ lastRun.end \in {"pushed", "clean"}

\* C10: a mirror run that follows a completed run, with no Put or Delete
\* applied between the two, creates no commit and performs no push.
C10_SecondRunIdle ==
  [][\A m \in Mirrors :
       SecondRun(m) => /\ ahead' <= ahead /\ head' = head
                       /\ ~(mpc[m] = "push" /\ mpc'[m] = "done")]_vars

\* C11: a run with no failed step creates a commit exactly when the staged
\* document subtree differs from the last commit: the step that creates a
\* commit finds a difference, and a run that ends with no commit leaves none.
\* Stated for the working copies that hold no file outside the subtree.
C11_CommitIffChanged ==
  [][\A m \in Mirrors :
       outside = {} =>
         /\ (mpc[m] = "commit" /\ ahead' = ahead + 1) => idx # head
         /\ (Running(m) /\ mpc'[m] = "done"
               /\ mrun'[m].end \in {"clean", "no_match"}) => idx' = head']_vars

\* The document f (a mapping of fields) is tagged with the macro marker.
Tagged(f) ==
  /\ "tags" \in DOMAIN f
  /\ f["tags"].t = "array"
  /\ \E j \in 1..Len(f["tags"].l) : f["tags"].l[j] = MacroTag

\* The titles of the non-tombstoned documents, in the order of the listing.
LiveTitles == SelectSeq(TitleOrder, LAMBDA t : t \in Live(cur))

\* Handler p answers a listing with 2xx in this step.
Lists(p) ==
  /\ calls' = calls + 1
  /\ req'[p].op = "LIST"
  /\ res'[p].code = 200

\* C12: in every listing, a document tagged with the macro marker has a text
\* field equal to its stored body, and a document not so tagged has no text
\* field.
C12_MacroInlining ==
  [][Lists("w1") =>
       /\ Len(res'["w1"].body) = Len(LiveTitles)
       /\ \A i \in 1..Len(LiveTitles) :
            LET t == cur[LiveTitles[i]]
                g == Exact(res'["w1"].body[i])
            IN IF Tagged(Exact(t.Meta))
               THEN "text" \in DOMAIN g /\ g["text"] = Str(t.Text)
               ELSE "text" \notin DOMAIN g]_vars

\* C13: when the rebuild of a run has completed, over a store not written
\* since the run's query, the document subtree holds exactly the files
\* <title>.tid of the non-tombstoned documents, title being the store key.
C13_FilePerDocument ==
  \A m \in Mirrors :
    (mpc[m] = "add" /\ mrun[m].gen = Gen)
      => DOMAIN wt = {t \o ".tid" : t \in Live(cur)}

\* The orderings of the fields of a JSON object text.
Orderings(pairs) ==
  LET n == Len(pairs)
      P == {q \in [1..n -> 1..n] : \A i, j \in 1..n : q[i] = q[j] => i = j}
  IN {[i \in 1..n |-> pairs[q[i]]] : q \in P}

\* C14: the bytes of a document's file do not depend on the order of its
\* fields: the file index writes equals the rendering of every reordering of
\* the stored metadata, and a Put of any reordering of the payload's fields
\* stores a document with the same rendering.
C14_RenderOrderFree ==
  [][/\ \A m \in Mirrors :
          (mpc[m] = "scan" /\ mpc'[m] = "scan" /\ mscan[m] # <<>>
             /\ mscan'[m] = Tail(mscan[m]) /\ Parses(Head(mscan[m]).Meta))
            => LET t == Head(mscan[m])
                   js == Unmarshal(t.Meta)
               IN FileTarget(js) = "inside" =>
                    \A q \in Orderings(t.Meta) :
                      wt'[FileName(js)] = Render([t EXCEPT !.Meta = q])
     /\ \A p \in Procs :
          (pc[p] # "put_cur" /\ pc'[p] = "put_cur")
            => \A q \in Orderings(req'[p].data) :
                 Render(PutTiddler(Unmarshal(q), loc'[p].Rev)) = Render(loc'[p])]_vars

\* C14 (witness): the file of a document put with the fields title, text,
\* tags in that order: sorted field lines, a blank line, the body.
C14_SortedFile ==
  /\ "A.tid" \in DOMAIN wt
  /\ wt["A.tid"] = "bag: bag\nrevision: 1\ntags: x y\ntitle: A\n\nx"
  /\ \E t \in DOMAIN cur : cur[t].Text = "x" /\ cur[t].Rev = 1 /\ Len(cur[t].Meta) = 4

\* C15: a Get or Delete of a title with no current record, the datastore
\* answering, fails with NotFound, a status other than that of an internal
\* failure, and writes no current record and no history record.
C15_NotFound ==
  [][\A p \in Procs :
       (/\ calls' = calls + 1
        /\ req'[p].op \in {"GET", "DELETE"}
        /\ req'[p].title \notin DOMAIN cur
        /\ res'[p].msg # "datastore")
         => /\ pc'[p] = "done"
            /\ res'[p].code \notin {200, 500}
            /\ cur' = cur /\ hist' = hist]_vars

\* C16: a Put whose payload does not parse fails with BadRequest (status
\* 400) and writes no current record and no history record.
C16_BadRequest ==
  [][\A p \in Procs :
       (/\ calls' = calls + 1
        /\ req'[p].op = "PUT"
        /\ ~Parses(req'[p].data))
         => /\ pc'[p] = "done"
            /\ res'[p].code = 400
            /\ cur' = cur /\ hist' = hist /\ log' = log]_vars

\* C17: a mirror trigger answers success exactly when its run ended with
\* nothing to commit or with a commit that was pushed; a run in which a step
\* failed answers failure. (A run that found no file to stage is counted
\* with the runs that had nothing to commit.)
C17_TriggerReportsFailure ==
  \A m \in Mirrors :
    (mpc[m] = "done" /\ mrun[m].n > 0)
      => (mres[m] = 200 <=> mrun[m].end \in {"clean", "pushed", "no_match"})

\* The titles whose stored metadata parses, in the order of the listing.
ParsedTitles ==
  SelectSeq(TitleOrder, LAMBDA t : t \in DOMAIN cur /\ Parses(cur[t].Meta))

\* C18: a listing holds one entry for every stored document whose metadata
\* parses and none for any other, and every entry parses.
C18_ListingSkipsUnparsable ==
  [][\A p \in Procs :
       Lists(p) =>
         /\ Len(res'[p].body) = Len(ParsedTitles)
         /\ \A i \in 1..Len(res'[p].body) : Parses(res'[p].body[i])]_vars

\* C19: every mirror run prepares the working copy (clone, or open and pull)
\* before its rebuild: no more rebuilds have started than preparations were
\* made, that of main counted for the first run.
C19_PrepareBeforeRebuild ==
  runs <= prepared

\* C20: when the push of a run fails, the commit it created stays in the
\* local repository and the trigger reports the failure; the next run, over
\* a store not written since and a working copy with no file outside the
\* subtree, creates no commit and performs no push, so the commit stays
\* unpublished.
C20_PushFailure ==
  [][\A m \in Mirrors :
       /\ (mpc[m] = "push" /\ mpc'[m] = "done" /\ mrun'[m].end = "push_error")
            => /\ ahead' = ahead /\ ahead' > 0 /\ head' = head
               /\ mres'[m] # 200
       /\ (/\ outside = {}
           /\ lastRun.n > 0 /\ lastRun.end = "push_error"
           /\ mrun[m].n = lastRun.n + 1 /\ mrun[m].gen = lastRun.gen)
            => /\ ahead' = ahead /\ head' = head
               /\ ~(mpc[m] = "push" /\ mpc'[m] = "done")]_vars

\* C21: the record a Put stores has, in its metadata, bag equal to "bag" and
\* revision equal to the record's revision, and no text field, whatever the
\* payload held for these fields.
C21_BagAndRevisionInjected ==
  [][\A p \in Procs :
       (pc[p] = "put_cur" /\ pc'[p] = "put_hist")
         => LET t == cur'[req[p].title]
                f == Exact(t.Meta)
            IN /\ "bag" \in DOMAIN f /\ f["bag"] = Str("bag")
               /\ "revision" \in DOMAIN f /\ f["revision"] = Num(0, t.Rev)
               /\ "text" \notin DOMAIN f]_vars

\* C21 (witness): a Put whose payload supplied bag "mine" and revision 7
\* returned 2xx, and the stored metadata holds bag "bag" and revision 1.
C21_OwnFieldsReplaced ==
  \E t \in DOMAIN cur :
    /\ pc["w1"] = "done" /\ req["w1"].op = "PUT" /\ req["w1"].title = t
    /\ res["w1"].code = 200
    /\ req["w1"].data = PayOwn
    /\ Exact(PayOwn)["bag"] = Str("mine")
    /\ Exact(PayOwn)["revision"] = Num(0, 7)
    /\ cur[t].Rev = 1
    /\ Exact(cur[t].Meta)["bag"] = Str("bag")
    /\ Exact(cur[t].Meta)["revision"] = Num(0, 1)

\* The current record of title t is a tombstone.
Tombstoned(t) == t \in DOMAIN cur /\ Len(cur[t].Meta) = 0

\* C22: no step removes a current record; a Put to a tombstoned title at
\* revision r stores revision r + 1 and a live document; a Delete of a
\* tombstoned title at revision r stores a tombstone at revision r + 1 and,
\* when it returns 2xx, a tombstone at history key (title, r + 1).
C22_TombstoneLineage ==
  [][/\ DOMAIN cur \subseteq DOMAIN cur'
     /\ \A p \in Procs :
          LET t == req[p].title
          IN /\ (pc[p] = "put_cur" /\ pc'[p] = "put_hist" /\ Tombstoned(t))
                  => cur'[t].Rev = cur[t].Rev + 1 /\ t \in Live(cur')
             /\ (pc[p] = "del_cur" /\ pc'[p] = "del_hist" /\ Tombstoned(t))
                  => cur'[t] = [Rev |-> cur[t].Rev + 1, Meta |-> <<>>, Text |-> ""]
             /\ (pc[p] = "del_hist" /\ pc'[p] = "done" /\ res'[p].code = 200)
                  => /\ <<t, loc[p].Rev>> \in DOMAIN hist'
                     /\ hist'[<<t, loc[p].Rev>>] = loc[p]
                     /\ Len(loc[p].Meta) = 0]_vars

\* The metadata of entity t cannot be rendered: it does not parse, or its
\* tags field is not a list.
Unrenderable(t) ==
  /\ Len(t.Meta) # 0
  /\ ~Parses(t.Meta) \/ TagsPanic(Unmarshal(t.Meta))

\* C23: in the rebuild, a document whose metadata cannot be rendered is
\* skipped: the loop writes no file for it and goes on to the next entity.
C23_BadDocumentSkipped ==
  [][\A m \in Mirrors :
       (/\ mpc[m] = "scan" /\ mscan[m] # <<>>
        /\ mpc'[m] # mpc[m] \/ mscan'[m] # mscan[m]
        /\ Unrenderable(Head(mscan[m]))
        /\ mrun'[m].end # "scan_error")
         => /\ mpc'[m] = "scan"
            /\ mscan'[m] = Tail(mscan[m])
            /\ wt' = wt /\ outside' = outside]_vars

RECURSIVE Spaced(_)
\* The elements of a non-empty list in order, one space between neighbours.
Spaced(l) ==
  IF Len(l) = 1 THEN l[1]
  ELSE Spaced(SubSeq(l, 1, Len(l) - 1)) \o " " \o l[Len(l)]

\* The line of a tags list: none for the empty list.
TagsLine(l) == IF l = <<>> THEN "" ELSE "tags: " \o Spaced(l) \o "\n"

\* C24: the file written for a document with a tags list holds, between the
\* lines of the fields before and after tags, one line "tags: " with the
\* elements in stored order separated by single spaces, and no line when the
\* list is empty.
C24_TagsLine ==
  [][\A m \in Mirrors :
       (/\ mpc[m] = "scan" /\ mpc'[m] = "scan" /\ mscan[m] # <<>>
        /\ mscan'[m] = Tail(mscan[m]) /\ Parses(Head(mscan[m]).Meta))
         => LET t == Head(mscan[m])
                js == Unmarshal(t.Meta)
                ks == SortedKeys(DOMAIN js)
                i == CHOOSE n \in 1..Len(ks) : ks[n] = "tags"
            IN ("tags" \in DOMAIN js /\ FileTarget(js) = "inside") =>
                 wt'[FileName(js)] =
                   RenderFields(js, SubSeq(ks, 1, i - 1))
                     \o TagsLine(js["tags"].l)
                     \o RenderFields(js, SubSeq(ks, i + 1, Len(ks)))
                     \o "\n" \o t.Text]_vars

\* C24 (witness): the files of a document tagged x and y and of a document
\* with an empty tags list.
C24_TagsFiles ==
  /\ DOMAIN wt = {"A.tid", "B.tid"}
  /\ wt["A.tid"] = "bag: bag\nrevision: 1\ntags: x y\ntitle: A\n\nx"
  /\ wt["B.tid"] = "bag: bag\nrevision: 1\ntitle: B\n\ne"
  /\ \E t \in DOMAIN cur : cur[t] = PutTiddler(Unmarshal(PayNoTags), 1)

RECURSIVE RenderStore(_, _)
\* The files of the document subtree for the entities ts, rendered in order.
RenderStore(files, ts) ==
  IF ts = <<>> THEN files
  ELSE LET t == Head(ts)
           js == Unmarshal(t.Meta)
       IN IF ~Parses(t.Meta) \/ TagsPanic(js) \/ FileTarget(js) # "inside"
          THEN RenderStore(files, Tail(ts))
          ELSE RenderStore(Put1(files, FileName(js), Render(t)), Tail(ts))

\* Ends of a run that failed part-way.
FailedEnds ==
  {"rebuild_error", "scan_error", "panic", "add_error", "status_error",
   "commit_error", "push_error"}

\* C25: a run that answers success after a run that failed part-way, the
\* store not written since its query, ends with the document subtree of the
\* last commit equal to the rendering of the store.
C25_RecoversAfterFailure ==
  [][\A m \in Mirrors :
       (/\ Running(m) /\ mpc'[m] = "done" /\ mres'[m] = 200
        /\ mrun'[m].end \in {"pushed", "clean", "no_match"}
        /\ lastRun.n > 0 /\ mrun[m].n = lastRun.n + 1
        /\ lastRun.end \in FailedEnds
        /\ mrun[m].gen = Gen)
         => head' = RenderStore(<<>>, Snapshot(cur, StoredTitles(cur)))]_vars

\* The titles whose current record or history entries differ between this
\* state and the next.
ChangedTitles ==
  {t \in Titles :
     \/ (t \in DOMAIN cur') # (t \in DOMAIN cur)
     \/ t \in DOMAIN cur /\ t \in DOMAIN cur' /\ cur'[t] # cur[t]
     \/ \E k \in DOMAIN hist \cup DOMAIN hist' :
          /\ k[1] = t
          /\ \/ k \notin DOMAIN hist \/ k \notin DOMAIN hist'
             \/ hist'[k] # hist[k]}

\* Two Puts, one per handler, on distinct titles of an empty store have
\* returned 2xx: each title holds what its Put alone would have stored.
Commutes ==
  (/\ calls = 2
   /\ \A p \in Procs : pc[p] = "done" /\ req[p].op = "PUT" /\ res[p].code = 200
   /\ req["w1"].title # req["w2"].title)
    => \A p \in Procs :
         LET t == PutTiddler(Unmarshal(req[p].data), 1)
         IN /\ cur[req[p].title] = t
            /\ hist[<<req[p].title, 1>>] = t
            /\ DOMAIN hist = {<<req[q].title, 1>> : q \in Procs}

\* C26: a step of a Put or Delete of title T changes no current record and
\* no history entry of another title, a Get or a listing changes no record,
\* and writes to distinct titles end in the same store whatever their
\* interleaving.
C26_FramePerTitle ==
  [][/\ ChangedTitles \subseteq
          {req[p].title : p \in {q \in Procs :
             /\ pc[q] \in {"put_cur", "put_hist", "del_cur", "del_hist"}
             /\ pc'[q] # pc[q]}}
     /\ \A p \in Procs :
          (calls' = calls + 1 /\ req'[p].op \in {"GET", "LIST"} /\ pc'[p] = "done"
             /\ res'[p] # res[p])
            => cur' = cur /\ hist' = hist
     /\ Commutes']_vars

\* C26 (witness): two Puts on distinct titles are under way at once, each
\* with its current record written and its history entry still to write.
C26_DistinctTitlesInFlight ==
  /\ \A p \in Procs : pc[p] = "put_hist"
  /\ req["w1"].title # req["w2"].title
  /\ DOMAIN cur = {req["w1"].title, req["w2"].title}
  /\ \A p \in Procs : cur[req[p].title] = loc[p]
  /\ hist = <<>>

\* The record t is a tombstone, or its metadata holds its own revision.
SelfRevisioned(t) ==
  Len(t.Meta) # 0 =>
    /\ "revision" \in DOMAIN Exact(t.Meta)
    /\ Exact(t.Meta)["revision"] = Num(0, t.Rev)

\* C27: every current record and every history record that is not a
\* tombstone holds, in its metadata, a revision field equal to its revision
\* counter, and the history record at key (T, r) has revision counter r.
C27_RevisionFieldMatches ==
  /\ \A t \in DOMAIN cur : SelfRevisioned(cur[t])
  /\ \A k \in DOMAIN hist : SelfRevisioned(hist[k]) /\ hist[k].Rev = k[2]

\* C27 (witness): a title put twice and then deleted: a live history record
\* at revision 2 and a tombstone at revision 3, current and in the history.
C27_ThreeRevisions ==
  \E t \in DOMAIN cur :
    /\ cur[t] = [Rev |-> 3, Meta |-> <<>>, Text |-> ""]
    /\ {<<t, 1>>, <<t, 2>>, <<t, 3>>} \subseteq DOMAIN hist
    /\ Len(hist[<<t, 2>>].Meta) # 0
    /\ Exact(hist[<<t, 2>>].Meta)["revision"] = Num(0, 2)
    /\ hist[<<t, 3>>] = cur[t]

====
